---- MODULE Spec2Model ----
(***************************************************************************)
(* Flood mesh node of src/main.py: frame codec, seen cache, advertising    *)
(* burst, injection timer, scan-result handler and main loop.              *)
(*                                                                         *)
(* Text is modelled as sequences of byte values (ASCII codes), so that     *)
(* make_frame / parse_frame / str / int / frame[:25] are computed on the   *)
(* characters as the code computes them.                                   *)
(***************************************************************************)
EXTENDS Integers, Sequences, FiniteSets, TLC

(* ------------------------------------------------------------------------ *)
(* Characters                                                               *)
(* ------------------------------------------------------------------------ *)
\* "M1|": the frame marker                      (src/main.py:35, 39, 155)
Marker == <<77, 49, 124>>
\* "|": the field delimiter                     (src/main.py:41)
PIPE == 124
\* "\x00": the terminator the handler cuts at   (src/main.py:158)
NUL == 0
\* ":" joins origin and messageID in a seen key (src/main.py:130, 173)
COLON == 58
\* "T": the type tag of an injected frame       (src/main.py:134)
TYPE_T == <<84>>

IsDigit(c) == c \in 48..57
IsSpace(c) == c \in {32, 9, 10, 13}

(* ------------------------------------------------------------------------ *)
(* Configuration (src/main.py:14-22)                                        *)
(* ------------------------------------------------------------------------ *)
ADV_BURST_MS == 300
INJECT_PERIOD_S == 60
INJECT_JITTER_S == 10
DEFAULT_TTL == 3
\* time.sleep_ms(20) at the end of a main-loop iteration
SLEEP_MS == 20
\* frame[:25] in frame_to_name
NAME_MAX == 25
\* SEEN_MAX is 400 in the source; the model runs the same code with a small
\* capacity so that eviction happens within the explored runs.
SEEN_MAX == 2

(* ------------------------------------------------------------------------ *)
(* str(int) and int(str)                                                    *)
(* ------------------------------------------------------------------------ *)
RECURSIVE NatToStr(_)
NatToStr(n) == IF n < 10 THEN <<48 + n>>
               ELSE NatToStr(n \div 10) \o <<48 + (n % 10)>>

\* "{}".format(i) / str(i) of an integer
IntToStr(i) == IF i < 0 THEN <<45>> \o NatToStr(0 - i) ELSE NatToStr(i)

RECURSIVE DigitsToNat(_)
DigitsToNat(s) == IF s = <<>> THEN 0
                  ELSE 10 * DigitsToNat(SubSeq(s, 1, Len(s) - 1)) + (s[Len(s)] - 48)

RECURSIVE LStrip(_)
LStrip(s) == IF s # <<>> /\ IsSpace(s[1]) THEN LStrip(Tail(s)) ELSE s

RECURSIVE RStrip(_)
RStrip(s) == IF s # <<>> /\ IsSpace(s[Len(s)])
             THEN RStrip(SubSeq(s, 1, Len(s) - 1)) ELSE s

\* int(s): surrounding whitespace, an optional sign, then one or more decimal
\* digits; anything else raises ValueError.
IntParse(s) ==
    LET t    == RStrip(LStrip(s))
        sgn  == t # <<>> /\ t[1] \in {43, 45}
        body == IF sgn THEN Tail(t) ELSE t
    IN  IF body # <<>> /\ \A i \in 1..Len(body) : IsDigit(body[i])
        THEN [ok |-> TRUE,
              val |-> IF sgn /\ t[1] = 45 THEN 0 - DigitsToNat(body)
                      ELSE DigitsToNat(body)]
        ELSE [ok |-> FALSE, val |-> 0]

(* ------------------------------------------------------------------------ *)
(* make_frame / parse_frame                                                 *)
(* ------------------------------------------------------------------------ *)
make_frame(orig, msgid, ttl, typ, data) ==
    Marker \o orig \o <<PIPE>> \o msgid \o <<PIPE>> \o IntToStr(ttl)
           \o <<PIPE>> \o typ \o <<PIPE>> \o data

StartsWith(s, p) == Len(s) >= Len(p) /\ SubSeq(s, 1, Len(p)) = p

\* index of the first occurrence of byte c in s, 0 when there is none
RECURSIVE IndexOf(_, _, _)
IndexOf(s, c, from) ==
    IF from > Len(s) THEN 0
    ELSE IF s[from] = c THEN from
    ELSE IndexOf(s, c, from + 1)

\* s.split("|", maxsplit): at most maxsplit cuts, the rest stays in the last part
RECURSIVE Split(_, _)
Split(s, maxsplit) ==
    LET i == IndexOf(s, PIPE, 1)
    IN  IF maxsplit = 0 \/ i = 0 THEN <<s>>
        ELSE <<SubSeq(s, 1, i - 1)>> \o Split(SubSeq(s, i + 1, Len(s)), maxsplit - 1)

NoFrame == [ok |-> FALSE, raised |-> FALSE]

\* the try block of parse_frame with one cut too few: s.split("|", 4)
parse_frame_try_split4(s) ==
    IF ~StartsWith(s, Marker) THEN NoFrame
    ELSE LET parts == Split(s, 4)
         IN  IF Len(parts) # 6 THEN NoFrame
             ELSE LET ttl == IntParse(parts[4])
                  IN  IF ~ttl.ok THEN [ok |-> FALSE, raised |-> TRUE]
                      ELSE [ok |-> TRUE, raised |-> FALSE,
                            orig |-> parts[2], msgid |-> parts[3],
                            ttl |-> ttl.val, typ |-> parts[5], data |-> parts[6]]

\* the body of parse_frame's try block: a frame, None, or an exception
parse_frame_try(s) ==
    IF ~StartsWith(s, Marker) THEN NoFrame
    ELSE LET parts == Split(s, 5)
         IN  IF Len(parts) # 6 THEN NoFrame
             ELSE LET ttl == IntParse(parts[4])
                  IN  IF ~ttl.ok THEN [ok |-> FALSE, raised |-> TRUE]
                      ELSE [ok |-> TRUE, raised |-> FALSE,
                            orig |-> parts[2], msgid |-> parts[3],
                            ttl |-> ttl.val, typ |-> parts[5], data |-> parts[6]]

\* parse_frame without the try/except: the exception of int() escapes
parse_frame_no_except(s) == parse_frame_try(s)

\* parse_frame: "except: return None" turns every exception into None
parse_frame(s) ==
    LET r == parse_frame_try(s)
    IN  IF r.raised THEN NoFrame ELSE r

(* ------------------------------------------------------------------------ *)
(* Advertising payload                                                      *)
(* ------------------------------------------------------------------------ *)
\* frame[:25]
frame_to_name(frame) == SubSeq(frame, 1, IF Len(frame) < NAME_MAX THEN Len(frame) ELSE NAME_MAX)

\* Flags AD structure, then a Complete Local Name AD structure holding the name
adv_payload_name(name) == <<2, 1, 6>> \o <<Len(name) + 1, 9>> \o name

(* ------------------------------------------------------------------------ *)
(* Seen cache                                                               *)
(* ------------------------------------------------------------------------ *)
Elems(q) == {q[i] : i \in 1..Len(q)}

seen_key(orig, msgid) == orig \o <<COLON>> \o msgid

\* seen_check_add without the membership test
seen_check_add_no_lookup(q, key) ==
    LET a == Append(q, key)
    IN  [ret  |-> FALSE,
         seen |-> IF Len(a) > SEEN_MAX
                  THEN SubSeq(a, Len(a) - SEEN_MAX + 1, Len(a))
                  ELSE a]

\* seen_check_add that looks for the key in the newest entry only
seen_check_add_newest_only(q, key) ==
    IF q # <<>> /\ key = q[Len(q)] THEN [ret |-> TRUE, seen |-> q]
    ELSE LET a == Append(q, key)
         IN  [ret  |-> FALSE,
              seen |-> IF Len(a) > SEEN_MAX
                       THEN SubSeq(a, Len(a) - SEEN_MAX + 1, Len(a))
                       ELSE a]

\* seen_check_add that trims the list at the tail: del self.seen[SEEN_MAX:]
seen_check_add_drop_newest(q, key) ==
    IF key \in Elems(q) THEN [ret |-> TRUE, seen |-> q]
    ELSE LET a == Append(q, key)
         IN  [ret  |-> FALSE,
              seen |-> IF Len(a) > SEEN_MAX THEN SubSeq(a, 1, SEEN_MAX) ELSE a]

\* seen_check_add on the list q: the returned flag and the list afterwards
seen_check_add(q, key) ==
    IF key \in Elems(q) THEN [ret |-> TRUE, seen |-> q]
    ELSE LET a == Append(q, key)
         IN  [ret  |-> FALSE,
              seen |-> IF Len(a) > SEEN_MAX
                       THEN SubSeq(a, Len(a) - SEEN_MAX + 1, Len(a))
                       ELSE a]

(* ------------------------------------------------------------------------ *)
(* Clock: time.ticks_ms / ticks_add / ticks_diff (wrap at TICKS_PERIOD)     *)
(* ------------------------------------------------------------------------ *)
TICKS_PERIOD == 2^30

ticks_add(t, d) == (t + d) % TICKS_PERIOD

ticks_diff(a, b) ==
    ((a - b + TICKS_PERIOD \div 2) % TICKS_PERIOD) - TICKS_PERIOD \div 2

(* ------------------------------------------------------------------------ *)
(* Relay and sensor formatting                                              *)
(* ------------------------------------------------------------------------ *)
\* forward_ttl that relays with a fresh hop budget
forward_ttl_reset(orig, msgid, ttl, typ, payload) ==
    LET ttl2 == ttl - 1
    IN  IF ttl2 < 0 THEN <<>>
        ELSE <<make_frame(orig, msgid, DEFAULT_TTL, typ, payload)>>

\* forward_ttl that relays nothing once the decremented ttl has reached 0
forward_ttl_drop_zero(orig, msgid, ttl, typ, payload) ==
    LET ttl2 == ttl - 1
    IN  IF ttl2 <= 0 THEN <<>>
        ELSE <<make_frame(orig, msgid, ttl2, typ, payload)>>

\* forward_ttl that forgets to use the decremented ttl in the relayed frame
forward_ttl_same_ttl(orig, msgid, ttl, typ, payload) ==
    IF ttl - 1 < 0 THEN <<>>
    ELSE <<make_frame(orig, msgid, ttl, typ, payload)>>

\* forward_ttl: the frames it hands to advertise_burst_start (none or one)
forward_ttl(orig, msgid, ttl, typ, payload) ==
    LET ttl2 == ttl - 1
    IN  IF ttl2 < 0 THEN <<>>
        ELSE <<make_frame(orig, msgid, ttl2, typ, payload)>>

\* "{:.2f}".format(temp), temp given in hundredths of a degree
Fmt2f(c) ==
    LET a == IF c < 0 THEN 0 - c ELSE c
    IN  (IF c < 0 THEN <<45>> ELSE <<>>) \o NatToStr(a \div 100)
        \o <<46, 48 + ((a % 100) \div 10), 48 + (a % 10)>>

\* the jitter taken as the raw random sample, without the reduction
rand_jitter_s_raw(bits) == bits

\* urandom.getrandbits(8) % (INJECT_JITTER_S + 1)
rand_jitter_s(bits) == bits % (INJECT_JITTER_S + 1)

(* ------------------------------------------------------------------------ *)
(* Bounds of the exploration                                                *)
(* ------------------------------------------------------------------------ *)
\* nodes of the network; node 1 is the node under test in Spec
NumNodes == 5
\* main-loop iterations (sleeps) explored, all nodes together
MaxIters == 2
\* largest ttl of a frame the environment puts on the air
MaxInTTL == 2
\* insertions into one seen cache that are explored
MaxHist == 4

\* longest garbled text after the marker that is fed to parse_frame
MaxBody == 6

Nodes == 1..NumNodes

(* ------------------------------------------------------------------------ *)
(* Identities and inputs                                                    *)
(* ------------------------------------------------------------------------ *)
\* NODE_ID: the last six hex characters of the board id; node 1 is "A1B2C3",
\* node n > 1 is "00000n"
NODE_ID(n) == IF n = 1 THEN <<65, 49, 66, 50, 67, 51>>
              ELSE <<48, 48, 48, 48, 48>> \o NatToStr(n % 10)

\* origin of the frames of a node outside the model: "D4E5F6"
OtherId == <<68, 52, 69, 53, 70, 54>>

\* messageIDs on the air: "7" and "1000"
MsgIds == {<<55>>, <<49, 48, 48, 48>>}

\* read_temp_c() in hundredths of a degree: 23.45 and -5.12
TempSamples == {2345, -512}

\* urandom.getrandbits(8) samples explored: jitter 0 and 241 % 11 = 10 seconds
RandBits == {0, 241}

\* time.ticks_ms() at construction: 150 ms before the tick counter wraps, so
\* that early deadlines wrap and later ones do not
BootTicks == {TICKS_PERIOD - 150}

\* time a main-loop sleep can take: sleep_ms(20) lasts at least 20 ms
SleepSteps == {SLEEP_MS, ADV_BURST_MS, INJECT_PERIOD_S * 1000}

InTTLs == (0 - 1)..MaxInTTL

\* well-formed frames other nodes may broadcast (node 1's own origin included):
\* every ttl for messageID "7", the largest ttl for the other messageIDs
ValidFrames ==
    {make_frame(OtherId, <<55>>, t, TYPE_T, Fmt2f(2345)) : t \in InTTLs}
    \cup {make_frame(OtherId, m, MaxInTTL, TYPE_T, Fmt2f(2345)) : m \in MsgIds}
    \cup {make_frame(NODE_ID(1), m, t, TYPE_T, Fmt2f(2345)) :
            m \in {<<55>>}, t \in {0, MaxInTTL}}

JoinPipe(a, b) == a \o <<PIPE>> \o b

\* "M1|D4E5F6|7"
FramePrefix == Marker \o JoinPipe(OtherId, <<55>>)

\* advertisements that carry no usable frame, and odd ones that do
OddAdverts ==
    { <<2, 1, 6>>,                                              \* flags only
      adv_payload_name(JoinPipe(FramePrefix, <<50, 124, 84>>)), \* "..|2|T": five tokens
      adv_payload_name(JoinPipe(FramePrefix, <<120, 124, 84, 124, 57>>)), \* ttl "x"
      adv_payload_name(JoinPipe(FramePrefix, <<124, 84, 124, 57>>)),      \* ttl ""
      adv_payload_name(JoinPipe(FramePrefix, <<50, 124, 84, 124, 57, 124, 57>>)), \* data "9|9"
      adv_payload_name(JoinPipe(FramePrefix, <<50, 124, 84, 124, 57>>)) \o <<NUL, 66>>, \* NUL padding
      adv_payload_name(JoinPipe(FramePrefix, <<50, 124, 84, 124, 255, 57>>)) } \* invalid UTF-8

RawInputs == {adv_payload_name(frame_to_name(f)) : f \in ValidFrames} \cup OddAdverts

(* ------------------------------------------------------------------------ *)
(* State                                                                    *)
(* ------------------------------------------------------------------------ *)
VARIABLES
    uptime,          \* ms since the nodes were constructed (the real clock)
    iters,           \* sleeps taken so far
    boot,            \* boot[n]: time.ticks_ms() of node n at construction
    pc,              \* pc[n]: where node n's main loop stands when its body is
                     \* followed statement by statement
    adv_active,      \* self._adv_active
    adv_stop_ms,     \* self._adv_stop_ms
    radio,           \* the broadcast primitive: on air or not, payload, start time
    seen,            \* self.seen
    hist,            \* keys seen_check_add inserted, oldest first
    next_inject_ms,  \* self.next_inject_ms
    scan_state,      \* the scan primitive: "scanning" in a window, "ended" after it
    last,            \* what the last handler or loop iteration did
    cin, cout        \* codec exercise: input and result

vars == <<uptime, iters, boot, pc, adv_active, adv_stop_ms, radio, seen, hist,
          next_inject_ms, scan_state, last, cin, cout>>

nodeVars == <<uptime, iters, boot, pc, adv_active, adv_stop_ms, radio, seen,
              hist, next_inject_ms, scan_state, last>>

ticks_ms(n) == (boot[n] + uptime) % TICKS_PERIOD

RadioOff == [on |-> FALSE, data |-> <<>>, since |-> 0]

\* the value seen_check_add returned, as last.ret records it
RetName(b) == IF b THEN "True" ELSE "False"

\* the record every step leaves in last
Did(n, op) ==
    [node |-> n, op |-> op, raw |-> <<>>, rx |-> NoFrame, key |-> <<>>, ret |-> "none",
     delivered |-> <<>>, starts |-> <<>>, stops |-> 0, scans |-> 0,
     svc |-> [active |-> FALSE, radio |-> RadioOff], fault |-> FALSE]

\* no handler or loop iteration is running
Ready == last.op = "none"

\* the running handler or loop iteration ends; its record is cleared
Return ==
    /\ ~Ready
    /\ last' = Did(0, "none")
    /\ UNCHANGED <<uptime, iters, boot, pc, adv_active, adv_stop_ms, radio, seen,
                   hist, next_inject_ms, scan_state, cin, cout>>

(* ------------------------------------------------------------------------ *)
(* Advertising burst                                                        *)
(* ------------------------------------------------------------------------ *)
\* advertise_burst_start that lets a burst already on air keep its deadline
advertise_burst_start_keep_deadline(n, frame) ==
    /\ radio' = [radio EXCEPT ![n] =
                    [on |-> TRUE,
                     data |-> adv_payload_name(frame_to_name(frame)),
                     since |-> uptime]]
    /\ adv_active' = [adv_active EXCEPT ![n] = TRUE]
    /\ adv_stop_ms' = [adv_stop_ms EXCEPT ![n] =
                          IF adv_active[n] THEN @
                          ELSE ticks_add(ticks_ms(n), ADV_BURST_MS)]

\* advertise_burst_start(frame) on node n
advertise_burst_start(n, frame) ==
    /\ radio' = [radio EXCEPT ![n] =
                    [on |-> TRUE,
                     data |-> adv_payload_name(frame_to_name(frame)),
                     since |-> uptime]]
    /\ adv_active' = [adv_active EXCEPT ![n] = TRUE]
    /\ adv_stop_ms' = [adv_stop_ms EXCEPT ![n] = ticks_add(ticks_ms(n), ADV_BURST_MS)]

\* the calls of advertise_burst_start a handler makes, in order (none or one)
ApplyStarts(n, starts) ==
    IF starts = <<>> THEN UNCHANGED <<radio, adv_active, adv_stop_ms>>
    ELSE advertise_burst_start(n, starts[Len(starts)])

\* the test of advertise_burst_service written as a plain comparison of tick
\* counts, which is wrong across the wrap
burst_expired_plain_compare(n) ==
    adv_active[n] /\ ticks_ms(n) >= adv_stop_ms[n]

\* the test of advertise_burst_service
burst_expired(n) ==
    adv_active[n] /\ ticks_diff(ticks_ms(n), adv_stop_ms[n]) >= 0

\* advertise_burst_service that never stops a burst
advertise_burst_service_never_stops(n) ==
    [active |-> adv_active[n], radio |-> radio[n]]

\* advertise_burst_service(): the burst state it leaves (active flag and radio)
advertise_burst_service(n) ==
    IF burst_expired(n)
    THEN [active |-> FALSE, radio |-> RadioOff]
    ELSE [active |-> adv_active[n], radio |-> radio[n]]

(* ------------------------------------------------------------------------ *)
(* Injection                                                                *)
(* ------------------------------------------------------------------------ *)
\* the test of run(): time.ticks_diff(now, self.next_inject_ms) >= 0
inject_due(n) == ticks_diff(ticks_ms(n), next_inject_ms[n]) >= 0

\* the next-fire time armed at construction and at the end of inject_own
arm_inject(now, bits) ==
    ticks_add(now, (INJECT_PERIOD_S + rand_jitter_s(bits)) * 1000)

\* t & 0xFFFFFFFF for a tick count t, which lies in 0 .. TICKS_PERIOD - 1 and so
\* below 2^32: the low 32 bits are t itself
Mask32(t) == t

\* inject_own() with sensor reading temp and random sample bits; rec is the
\* record of the loop iteration so far
inject_own(n, temp, bits, rec) ==
    LET data  == Fmt2f(temp)
        msgid == IntToStr(Mask32(ticks_ms(n)))
        key   == seen_key(NODE_ID(n), msgid)
        r     == seen_check_add(seen[n], key)
        frame == make_frame(NODE_ID(n), msgid, DEFAULT_TTL, TYPE_T, data)
    IN  /\ seen' = [seen EXCEPT ![n] = r.seen]
        /\ hist' = [hist EXCEPT ![n] = IF r.ret THEN @ ELSE Append(@, key)]
        /\ advertise_burst_start(n, frame)
        /\ next_inject_ms' = [next_inject_ms EXCEPT ![n] = arm_inject(ticks_ms(n), bits)]
        /\ last' = [rec EXCEPT !.key = key, !.ret = RetName(r.ret),
                                !.starts = <<frame>>]

(* ------------------------------------------------------------------------ *)
(* Main loop                                                                *)
(* ------------------------------------------------------------------------ *)
\* run(): one iteration of the loop body of node n at the present time:
\* advertise_burst_service(), then the injection check and, when it is due,
\* inject_own()
Iterate(n) ==
    /\ Ready
    /\ LET svc == advertise_burst_service(n)
           rec == [Did(n, "loop") EXCEPT
                      !.stops = IF burst_expired(n) THEN 1 ELSE 0, !.svc = svc]
       IN  IF inject_due(n)
           THEN /\ Len(hist[n]) < MaxHist
                /\ \E temp \in TempSamples, bits \in RandBits :
                      inject_own(n, temp, bits, rec)
           ELSE /\ radio' = [radio EXCEPT ![n] = svc.radio]
                /\ adv_active' = [adv_active EXCEPT ![n] = svc.active]
                /\ last' = rec
                /\ UNCHANGED <<adv_stop_ms, seen, hist, next_inject_ms>>
    /\ UNCHANGED <<uptime, iters, boot, pc, scan_state, cin, cout>>

\* d ms pass on every node while the main loops are in time.sleep_ms
Pass(d) ==
    /\ Ready
    /\ uptime' = uptime + d
    /\ UNCHANGED <<boot, pc, adv_active, adv_stop_ms, radio, seen, hist,
                   next_inject_ms, scan_state, last, cin, cout>>

\* run(): time.sleep_ms(20) between iterations; d >= 20 ms pass on every node
Sleep(d) ==
    /\ iters < MaxIters
    /\ iters' = iters + 1
    /\ Pass(d)

(* ------------------------------------------------------------------------ *)
(* Scan-result handler                                                      *)
(* ------------------------------------------------------------------------ *)
\* raw.find(b"M1|"): index of the first occurrence, 0 when there is none
RECURSIVE FindMarker(_, _)
FindMarker(raw, from) ==
    IF from + Len(Marker) - 1 > Len(raw) THEN 0
    ELSE IF SubSeq(raw, from, from + Len(Marker) - 1) = Marker THEN from
    ELSE FindMarker(raw, from + 1)

\* bytes that cannot stand in UTF-8 text (the inputs hold no multi-byte sequences)
BadUtf8(b) == b >= 128

\* text.split("\x00")[0]
UpToNul(t) ==
    LET i == IndexOf(t, NUL, 1)
    IN  IF i = 0 THEN t ELSE SubSeq(t, 1, i - 1)

\* step 1 of the handler: the frame text, or nothing (marker absent, or decode
\* raised and "except: return" caught it).  decode("utf-8", "ignore") drops the
\* invalid bytes where the errors argument is honoured (strict = FALSE) and
\* raises where the build ignores it (strict = TRUE).
extract_frame(raw, strict) ==
    LET idx  == FindMarker(raw, 1)
        rest == SubSeq(raw, idx, Len(raw))
    IN  IF idx = 0 THEN [ok |-> FALSE, s |-> <<>>]
        ELSE IF strict /\ \E i \in 1..Len(rest) : BadUtf8(rest[i])
        THEN [ok |-> FALSE, s |-> <<>>]
        ELSE [ok |-> TRUE, s |-> UpToNul(SelectSeq(rest, LAMBDA b : ~BadUtf8(b)))]

\* the decode behaviours that can differ on raw
DecodeModes(raw) ==
    IF \E i \in 1..Len(raw) : BadUtf8(raw[i]) THEN BOOLEAN ELSE {FALSE}

\* outcome of a handler run that returned early, leaving the cache q alone
Dropped(q, rx) ==
    [rx |-> rx, key |-> <<>>, ret |-> "none", seen |-> q,
     delivered |-> <<>>, starts |-> <<>>, fault |-> FALSE]

\* the handler of the template's earlier part: every new frame is relayed as
\* received (forward_raw), whatever its ttl
irq_scan_result_forward_raw(self, q, raw, strict) ==
    LET ex == extract_frame(raw, strict)
        p  == parse_frame(ex.s)
    IN  IF ~ex.ok \/ ~p.ok THEN Dropped(q, NoFrame)
        ELSE IF p.orig = self THEN Dropped(q, p)
        ELSE LET key == seen_key(p.orig, p.msgid)
                 r   == seen_check_add(q, key)
             IN  IF r.ret
                 THEN [Dropped(q, p) EXCEPT !.key = key, !.ret = "True"]
                 ELSE [rx |-> p, key |-> key, ret |-> "False", seen |-> r.seen,
                       delivered |-> <<[orig |-> p.orig, ttl |-> p.ttl,
                                        typ |-> p.typ, data |-> p.data]>>,
                       starts |-> <<ex.s>>,
                       fault |-> FALSE]

\* the handler relaying every new frame one hop further, whatever its ttl
irq_scan_result_no_ttl_test(self, q, raw, strict) ==
    LET ex == extract_frame(raw, strict)
        p  == parse_frame(ex.s)
    IN  IF ~ex.ok \/ ~p.ok THEN Dropped(q, NoFrame)
        ELSE IF p.orig = self THEN Dropped(q, p)
        ELSE LET key == seen_key(p.orig, p.msgid)
                 r   == seen_check_add(q, key)
             IN  IF r.ret
                 THEN [Dropped(q, p) EXCEPT !.key = key, !.ret = "True"]
                 ELSE [rx |-> p, key |-> key, ret |-> "False", seen |-> r.seen,
                       delivered |-> <<[orig |-> p.orig, ttl |-> p.ttl,
                                        typ |-> p.typ, data |-> p.data]>>,
                       starts |-> <<make_frame(p.orig, p.msgid, p.ttl - 1, p.typ, p.data)>>,
                       fault |-> FALSE]

\* the handler without the own-origin test
irq_scan_result_no_self_test(self, q, raw, strict) ==
    LET ex == extract_frame(raw, strict)
        p  == parse_frame(ex.s)
    IN  IF ~ex.ok \/ ~p.ok THEN Dropped(q, NoFrame)
        ELSE LET key == seen_key(p.orig, p.msgid)
                 r   == seen_check_add(q, key)
             IN  IF r.ret
                 THEN [Dropped(q, p) EXCEPT !.key = key, !.ret = "True"]
                 ELSE [rx |-> p, key |-> key, ret |-> "False", seen |-> r.seen,
                       delivered |-> <<[orig |-> p.orig, ttl |-> p.ttl,
                                        typ |-> p.typ, data |-> p.data]>>,
                       starts |-> IF p.ttl > 0
                                  THEN forward_ttl(p.orig, p.msgid, p.ttl, p.typ, p.data)
                                  ELSE <<>>,
                       fault |-> FALSE]

\* _irq(_IRQ_SCAN_RESULT, ...) on a node with identifier self and cache q:
\* what it parsed, the cache afterwards, what it delivered ("RX NEW") and the
\* frames it handed to advertise_burst_start
irq_scan_result(self, q, raw, strict) ==
    LET ex == extract_frame(raw, strict)
        p  == parse_frame(ex.s)
    IN  IF ~ex.ok THEN Dropped(q, NoFrame)
        ELSE IF p.raised THEN [Dropped(q, NoFrame) EXCEPT !.fault = TRUE]
        ELSE IF ~p.ok THEN Dropped(q, NoFrame)
        ELSE IF p.orig = self THEN Dropped(q, p)
        ELSE LET key == seen_key(p.orig, p.msgid)
                 r   == seen_check_add(q, key)
             IN  IF r.ret
                 THEN [Dropped(q, p) EXCEPT !.key = key, !.ret = "True"]
                 ELSE [rx |-> p, key |-> key, ret |-> "False", seen |-> r.seen,
                       delivered |-> <<[orig |-> p.orig, ttl |-> p.ttl,
                                        typ |-> p.typ, data |-> p.data]>>,
                       starts |-> IF p.ttl > 0
                                  THEN forward_ttl(p.orig, p.msgid, p.ttl, p.typ, p.data)
                                  ELSE <<>>,
                       fault |-> FALSE]

\* a scan result reaches node n's handler
IrqScanResult(n, raw, strict) ==
    /\ Ready
    /\ scan_state[n] = "scanning"
    /\ \E o \in {irq_scan_result(NODE_ID(n), seen[n], raw, strict)} :
        /\ o.ret = "False" => Len(hist[n]) < MaxHist
        /\ seen' = [seen EXCEPT ![n] = o.seen]
        /\ hist' = [hist EXCEPT ![n] = IF o.ret = "False" THEN Append(@, o.key) ELSE @]
        /\ ApplyStarts(n, o.starts)
        /\ last' = [Did(n, "scan_result") EXCEPT
                       !.raw = raw, !.rx = o.rx, !.key = o.key, !.ret = o.ret,
                       !.delivered = o.delivered, !.starts = o.starts,
                       !.fault = o.fault]
        /\ UNCHANGED <<uptime, iters, boot, pc, next_inject_ms, scan_state, cin, cout>>

(* ------------------------------------------------------------------------ *)
(* Scan window                                                              *)
(* ------------------------------------------------------------------------ *)
\* scan(): self.ble.gap_scan(SCAN_MS, 30000, 30000) opens a scan window
scan(n) == scan_state' = [scan_state EXCEPT ![n] = "scanning"]

\* the scan window of node n runs out: the radio stops scanning and queues
\* _IRQ_SCAN_DONE; until a new window is requested no scan result arrives
ScanWindowEnds(n) ==
    /\ Ready
    /\ scan_state[n] = "scanning"
    /\ scan_state' = [scan_state EXCEPT ![n] = "ended"]
    /\ UNCHANGED <<uptime, iters, boot, pc, adv_active, adv_stop_ms, radio, seen,
                   hist, next_inject_ms, last, cin, cout>>

\* the scan-window-ended handler without the new scan request
IrqScanDone_no_rescan(n) ==
    /\ Ready
    /\ scan_state[n] = "ended"
    /\ scan_state' = [scan_state EXCEPT ![n] = "idle"]
    /\ last' = Did(n, "scan_done")
    /\ UNCHANGED <<uptime, iters, boot, pc, adv_active, adv_stop_ms, radio, seen,
                   hist, next_inject_ms, cin, cout>>

\* _irq(_IRQ_SCAN_DONE, ...): self.scan()
IrqScanDone(n) ==
    /\ Ready
    /\ scan_state[n] = "ended"
    /\ scan(n)
    /\ last' = [Did(n, "scan_done") EXCEPT !.scans = 1]
    /\ UNCHANGED <<uptime, iters, boot, pc, adv_active, adv_stop_ms, radio, seen,
                   hist, next_inject_ms, cin, cout>>

\* what node n is broadcasting right now
OnAir(n) == IF radio[n].on THEN {radio[n].data} ELSE {}

(* ------------------------------------------------------------------------ *)
(* Single node under an arbitrary environment                               *)
(* ------------------------------------------------------------------------ *)
\* Node.__init__ of every node, node n constructed at tick count b[n]
NodeInit(b) ==
    /\ uptime = 0
    /\ iters = 0
    /\ boot = b
    /\ pc = [n \in Nodes |-> "service"]
    /\ adv_active = [n \in Nodes |-> FALSE]
    /\ adv_stop_ms = [n \in Nodes |-> 0]
    /\ radio = [n \in Nodes |-> RadioOff]
    /\ seen = [n \in Nodes |-> <<>>]
    /\ hist = [n \in Nodes |-> <<>>]
    /\ \E bits \in [Nodes -> RandBits] :
          next_inject_ms = [n \in Nodes |-> arm_inject(boot[n], bits[n])]
    /\ scan_state = [n \in Nodes |-> "scanning"]
    /\ last = Did(0, "none")

CodecIdle ==
    /\ cin = [st |-> "unset", args |-> <<>>, s |-> <<>>]
    /\ cout = [st |-> "idle", r |-> NoFrame]

Init ==
    /\ \E b \in [Nodes -> BootTicks] : NodeInit(b)
    /\ \A n \in Nodes \ {1} : next_inject_ms[n] = arm_inject(boot[n], 0)
    /\ CodecIdle

\* node 1 runs its main loop while the environment delivers scan results (any
\* advertisement of RawInputs, or node 1's own broadcast echoed back unchanged
\* by a neighbour) and scan-window ends
Next ==
    \/ Iterate(1)
    \/ \E d \in SleepSteps : Sleep(d)
    \/ \E raw \in RawInputs \cup OnAir(1) : \E strict \in DecodeModes(raw) : IrqScanResult(1, raw, strict)
    \/ ScanWindowEnds(1)
    \/ IrqScanDone(1)
    \/ Return

Spec == Init /\ [][Next]_vars

(* ------------------------------------------------------------------------ *)
(* Single node with a fair main loop                                        *)
(* ------------------------------------------------------------------------ *)
\* what reaches the handler: one relayable frame of another node and one
\* advertisement without the marker, besides the node's own echo
FairInputs ==
    {adv_payload_name(frame_to_name(make_frame(OtherId, <<55>>, MaxInTTL, TYPE_T, <<57>>))),
     <<2, 1, 6>>}

FairNext ==
    \/ Iterate(1)
    \/ \E d \in SleepSteps : Sleep(d)
    \/ \E raw \in FairInputs \cup OnAir(1) : IrqScanResult(1, raw, FALSE)
    \/ ScanWindowEnds(1)
    \/ IrqScanDone(1)
    \/ Return

\* run() is "while True": whenever no handler is running the loop body gets
\* to run, and every handler and every loop body returns; events and the
\* passing of time are not forced
SpecFair ==
    /\ Init
    /\ [][FairNext]_vars
    /\ SF_vars(Iterate(1))
    /\ WF_vars(Return)

(* ------------------------------------------------------------------------ *)
(* Line of nodes: node n is in radio range of nodes n - 1 and n + 1         *)
(* ------------------------------------------------------------------------ *)
\* node 1 ("A1B2C3") is constructed 59 s before its tick counter wraps, so an
\* injection 60 s after construction carries messageID "1000"
LineBoot == [n \in Nodes |-> IF n = 1 THEN TICKS_PERIOD - 59000
                                      ELSE TICKS_PERIOD - 150]

\* node 1 draws jitter 0 at construction, the others the largest jitter (10 s)
LineInit ==
    /\ NodeInit(LineBoot)
    /\ next_inject_ms = [n \in Nodes |->
                            arm_inject(LineBoot[n], IF n = 1 THEN 0 ELSE 241)]
    /\ CodecIdle

\* the line is followed up to the first injection of the nodes behind node 1
LineHorizon == (INJECT_PERIOD_S + INJECT_JITTER_S) * 1000

Neighbours(n) == {n - 1, n + 1} \cap Nodes

\* every node runs its main loop and hears what its neighbours have on air;
\* a node may miss a broadcast, and its scan windows stay open (each window
\* that ends is re-armed by the handler of the scan-window-ended event)
LineNext ==
    \/ \E n \in Nodes : Iterate(n)
    \/ \E d \in SleepSteps : uptime + d < LineHorizon /\ Sleep(d)
    \/ \E n \in Nodes : \E m \in Neighbours(n) : \E raw \in OnAir(m) :
          \E strict \in DecodeModes(raw) : IrqScanResult(n, raw, strict)
    \/ Return

SpecNet == LineInit /\ [][LineNext]_vars

(* ------------------------------------------------------------------------ *)
(* The line with fair main loops, an advancing clock and a full cache       *)
(* ------------------------------------------------------------------------ *)
\* the nodes of the line that are switched on: the originator and two relays
FloodNodes == 1..3

\* node 2 also hears a transmitter outside the line, which sends SEEN_MAX
\* messages of its own with ttl 0: enough to push any key out of node 2's cache
OutsideAdverts ==
    {adv_payload_name(frame_to_name(make_frame(OtherId, IntToStr(k), 0, TYPE_T, <<57>>))) :
        k \in 1..SEEN_MAX}

\* time advances to the next point at which a loop has something to do: by
\* one burst length while a burst is on air, by the injection period otherwise
FloodSteps ==
    IF \E n \in FloodNodes : adv_active[n] THEN {ADV_BURST_MS}
    ELSE {INJECT_PERIOD_S * 1000}

\* node n's loop body has nothing to do at the present time
CaughtUp(n) ==
    /\ ~(adv_active[n] /\ ticks_diff(ticks_ms(n), adv_stop_ms[n]) >= 0)
    /\ ~inject_due(n)

\* the main loops run every SLEEP_MS, far more often than the clock of this
\* specification steps: time passes only once every loop has caught up
FloodPass(d) ==
    /\ \A n \in FloodNodes : CaughtUp(n)
    /\ uptime + d < LineHorizon
    /\ Pass(d)
    /\ UNCHANGED iters

FloodNext ==
    \/ \E n \in FloodNodes : Iterate(n)
    \/ \E d \in FloodSteps : FloodPass(d)
    \/ \E n \in FloodNodes : \E m \in Neighbours(n) \cap FloodNodes : \E raw \in OnAir(m) :
          IrqScanResult(n, raw, FALSE)
    \/ \E raw \in OutsideAdverts : IrqScanResult(2, raw, FALSE)
    \/ Return

\* every main loop keeps running, handlers return and the clock keeps
\* advancing; no reception is forced
SpecFlood ==
    /\ LineInit
    /\ [][FloodNext]_vars
    /\ \A n \in FloodNodes : SF_vars(Iterate(n))
    /\ SF_vars(\E d \in FloodSteps : FloodPass(d))
    /\ WF_vars(Return)

(* ------------------------------------------------------------------------ *)
(* Codec exercise: make_frame and parse_frame on bounded inputs             *)
(* ------------------------------------------------------------------------ *)
\* fields without the delimiter: "", "A1B2C3", ":" / "", "7", "1000" /
\* "", "T" / "", "23.45", "-5.12", "M1"
CodecOrigs == {<<>>, NODE_ID(1), <<COLON>>}
CodecMsgIds == {<<>>, <<55>>, <<49, 48, 48, 48>>}
CodecTTLs == {0 - 10, 0 - 1, 0, DEFAULT_TTL, 9, 10, 255}
CodecTypes == {<<>>, TYPE_T}
CodecDatas == {<<>>, Fmt2f(2345), Fmt2f(0 - 512), <<77, 49>>}

\* texts that start with the marker and go on with up to MaxBody characters
\* out of "|", "2", "x", and three texts that do not start with it
CodecTexts ==
    {Marker \o b : b \in UNION {[1..k -> {PIPE, 50, 120}] : k \in 0..MaxBody}}
    \cup {<<>>, <<77, 49>>, <<120>> \o make_frame(OtherId, <<55>>, 2, TYPE_T, <<57>>)}

\* a caller encodes five fields
CodecEncode(o, m, t, ty, d) ==
    /\ cin.st = "unset"
    /\ cin' = [st |-> "set", args |-> <<o, m, t, ty, d>>, s |-> make_frame(o, m, t, ty, d)]
    /\ UNCHANGED <<cout, nodeVars>>

\* a text arrives from outside
CodecFeed(text) ==
    /\ cin.st = "unset"
    /\ cin' = [st |-> "set", args |-> <<>>, s |-> text]
    /\ UNCHANGED <<cout, nodeVars>>

\* parse_frame is applied to the text
CodecDecode ==
    /\ cin.st = "set" /\ cout.st = "idle"
    /\ cout' = [st |-> "done", r |-> parse_frame(cin.s)]
    /\ UNCHANGED <<cin, nodeVars>>

\* the result is consumed
CodecReset ==
    /\ cout.st = "done"
    /\ cin' = [st |-> "unset", args |-> <<>>, s |-> <<>>]
    /\ cout' = [st |-> "idle", r |-> NoFrame]
    /\ UNCHANGED nodeVars

CodecNext ==
    \/ \E o \in CodecOrigs, m \in CodecMsgIds, t \in CodecTTLs,
          ty \in CodecTypes, d \in CodecDatas : CodecEncode(o, m, t, ty, d)
    \/ \E text \in CodecTexts : CodecFeed(text)
    \/ CodecDecode
    \/ CodecReset

SpecCodec == Init /\ [][CodecNext]_vars

(* ------------------------------------------------------------------------ *)
(* Single node whose handler preempts the main loop between statements      *)
(* ------------------------------------------------------------------------ *)
\* advertise_burst_service(), the condition of the if statement
SvcTest(n) ==
    /\ Ready
    /\ pc[n] = "service"
    /\ pc' = [pc EXCEPT ![n] = IF burst_expired(n) THEN "stop" ELSE "poll"]
    /\ UNCHANGED <<uptime, iters, boot, adv_active, adv_stop_ms, radio, seen,
                   hist, next_inject_ms, scan_state, last, cin, cout>>

\* advertise_burst_service(): self.ble.gap_advertise(None)
SvcStop(n) ==
    /\ Ready
    /\ pc[n] = "stop"
    /\ radio' = [radio EXCEPT ![n] = RadioOff]
    /\ pc' = [pc EXCEPT ![n] = "clear"]
    /\ UNCHANGED <<uptime, iters, boot, adv_active, adv_stop_ms, seen,
                   hist, next_inject_ms, scan_state, last, cin, cout>>

\* advertise_burst_service(): self._adv_active = False
SvcClear(n) ==
    /\ Ready
    /\ pc[n] = "clear"
    /\ adv_active' = [adv_active EXCEPT ![n] = FALSE]
    /\ pc' = [pc EXCEPT ![n] = "poll"]
    /\ UNCHANGED <<uptime, iters, boot, adv_stop_ms, radio, seen,
                   hist, next_inject_ms, scan_state, last, cin, cout>>

\* run(): the injection check and, when it is due, inject_own(); the loop
\* then sleeps until its next iteration
PollInject(n) ==
    /\ Ready
    /\ pc[n] = "poll"
    /\ pc' = [pc EXCEPT ![n] = "service"]
    /\ IF inject_due(n)
       THEN /\ Len(hist[n]) < MaxHist
            /\ \E temp \in TempSamples, bits \in RandBits :
                  inject_own(n, temp, bits, Did(n, "loop"))
       ELSE UNCHANGED <<adv_active, adv_stop_ms, radio, seen, hist,
                        next_inject_ms, last>>
    /\ UNCHANGED <<uptime, iters, boot, scan_state, cin, cout>>

\* the scan-result handler runs to completion whenever it is raised, also
\* between two statements of the loop body; the loop sleeps between bodies
PreemptNext ==
    \/ SvcTest(1)
    \/ SvcStop(1)
    \/ SvcClear(1)
    \/ PollInject(1)
    \/ \E d \in SleepSteps : pc[1] = "service" /\ Sleep(d)
    \/ \E raw \in FairInputs \cup OnAir(1) : IrqScanResult(1, raw, FALSE)
    \/ Return

SpecPreempt == Init /\ [][PreemptNext]_vars

(* ------------------------------------------------------------------------ *)
(* Dedupe exercise: two advertisements in a row on an empty cache           *)
(* ------------------------------------------------------------------------ *)
\* origins "AB", "AB:1", "D4E5F6" and messageIDs "2", "1:2", "7"
KeyOrigs == {<<65, 66>>, <<65, 66, COLON, 49>>, OtherId}
KeyMsgIds == {<<50>>, <<49, COLON, 50>>, <<55>>}

\* what other transmitters have on air: frames with these origins and
\* messageIDs, ttl 0 and ttl 1
KeyAdverts ==
    {adv_payload_name(frame_to_name(make_frame(o, m, t, TYPE_T, <<57>>))) :
        o \in KeyOrigs, m \in KeyMsgIds, t \in {0, 1}}

\* two advertisements are picked
KeyFeed(a, b) ==
    /\ cin.st = "unset"
    /\ cin' = [st |-> "pair", args |-> <<a, b>>, s |-> <<>>]
    /\ UNCHANGED <<cout, nodeVars>>

\* the scan-result handler of a node with an empty cache gets the first and
\* then the second
KeyHandle ==
    /\ cin.st = "pair" /\ cout.st = "idle"
    /\ LET r1 == irq_scan_result(NODE_ID(1), <<>>, cin.args[1], FALSE)
           r2 == irq_scan_result(NODE_ID(1), r1.seen, cin.args[2], FALSE)
       IN  cout' = [st |-> "done",
                    r  |-> [first |-> r1.rx, second |-> r2.rx,
                            dup |-> r2.ret = "True", seen |-> r2.seen]]
    /\ UNCHANGED <<cin, nodeVars>>

KeyNext ==
    \/ \E a \in KeyAdverts, b \in KeyAdverts : KeyFeed(a, b)
    \/ KeyHandle
    \/ CodecReset

SpecKey == Init /\ [][KeyNext]_vars

(* ======================================================================== *)
(* Properties of the scan-result handler (node 1, specification Spec)       *)
(* ======================================================================== *)
\* the step just taken is a run of node 1's scan-result handler
IsScanResult == last'.op = "scan_result" /\ last'.node = 1

\* the handler decoded a frame that another node originated
ForeignFrame == last'.rx.ok /\ last'.rx.orig # NODE_ID(1)

\* the decoded frame's key was not in the cache when the handler started
NewlySeen == seen_key(last'.rx.orig, last'.rx.msgid) \notin Elems(seen[1])

BurstUnchanged ==
    /\ adv_active'[1] = adv_active[1]
    /\ adv_stop_ms'[1] = adv_stop_ms[1]
    /\ radio'[1] = radio[1]

DeliveredOnce ==
    last'.delivered = <<[orig |-> last'.rx.orig, ttl |-> last'.rx.ttl,
                         typ |-> last'.rx.typ, data |-> last'.rx.data]>>

\* C1: a newly-seen frame of another origin with ttl > 0 starts exactly one
\* relay burst, and the frame handed to advertise_burst_start decodes to the
\* received origin, messageID, type and payload with the ttl one lower.
C1_RelayOnceDecremented ==
    [][ (IsScanResult /\ ForeignFrame /\ NewlySeen /\ last'.rx.ttl > 0)
        => /\ Len(last'.starts) = 1
           /\ adv_active'[1] /\ radio'[1].on
           /\ LET f == parse_frame(last'.starts[1])
              IN  /\ f.ok
                  /\ f.ttl = last'.rx.ttl - 1
                  /\ f.orig = last'.rx.orig
                  /\ f.msgid = last'.rx.msgid
                  /\ f.typ = last'.rx.typ
                  /\ f.data = last'.rx.data ]_vars

\* a frame received with ttl = 2 has been relayed with ttl = 1
C1_Witness ==
    /\ last.op = "scan_result" /\ last.rx.ok /\ last.rx.ttl = 2
    /\ Len(last.starts) = 1
    /\ parse_frame(last.starts[1]).ttl = 1

\* C2: a newly-seen frame of another origin with ttl <= 0 is delivered exactly
\* once and starts no relay: active flag, deadline and payload on air stay as
\* they were.
C2_NoRelayAtZero ==
    [][ (IsScanResult /\ ForeignFrame /\ NewlySeen /\ last'.rx.ttl <= 0)
        => /\ DeliveredOnce
           /\ last'.starts = <<>>
           /\ BurstUnchanged ]_vars

\* a frame with ttl = 0 was delivered while a burst was on air
C2_Witness ==
    /\ last.op = "scan_result" /\ last.rx.ok /\ last.rx.ttl = 0
    /\ Len(last.delivered) = 1
    /\ adv_active[1]

\* C4: a frame whose origin is the node's own identifier is never delivered
\* and never relayed, whatever its ttl and whether or not its key is cached;
\* the seen cache and the burst state stay as they were.
C4_OwnOriginDropped ==
    [][ (IsScanResult /\ last'.rx.ok /\ last'.rx.orig = NODE_ID(1))
        => /\ last'.delivered = <<>>
           /\ last'.starts = <<>>
           /\ seen'[1] = seen[1]
           /\ BurstUnchanged ]_vars

\* the node heard its own injected frame (ttl > 0, key cached) and dropped it
C4_Witness ==
    /\ last.op = "scan_result" /\ last.rx.ok /\ last.rx.orig = NODE_ID(1)
    /\ last.rx.ttl > 0
    /\ seen_key(last.rx.orig, last.rx.msgid) \in Elems(seen[1])

(* ======================================================================== *)
(* The line scenario (specification SpecNet)                                *)
(* ======================================================================== *)
\* the frame "M1|A1B2C3|1000|<ttl>|T|23.45"
ScenarioFrame(ttl) ==
    make_frame(NODE_ID(1), <<49, 48, 48, 48>>, ttl, TYPE_T, <<50, 51, 46, 52, 53>>)

\* the step just taken is a scan-result handler that accepted the scenario's
\* message as new on some node
ScenarioAccepted ==
    /\ last'.op = "scan_result"
    /\ last'.ret = "False"
    /\ last'.rx.ok
    /\ make_frame(last'.rx.orig, last'.rx.msgid, 0, last'.rx.typ, last'.rx.data)
          = ScenarioFrame(0)

\* the handler of node last'.node delivered the frame once and started one
\* relay burst carrying the frame with the given ttl
RelayedWith(ttl) ==
    /\ Len(last'.delivered) = 1
    /\ last'.starts = <<ScenarioFrame(ttl)>>
    /\ adv_active'[last'.node]
    /\ radio'[last'.node].on
    /\ radio'[last'.node].data = adv_payload_name(ScenarioFrame(ttl))

\* the handler of node last'.node delivered the frame once and left the
\* node's burst state alone
DeliveredNotRelayed ==
    /\ Len(last'.delivered) = 1
    /\ last'.starts = <<>>
    /\ adv_active'[last'.node] = adv_active[last'.node]
    /\ adv_stop_ms'[last'.node] = adv_stop_ms[last'.node]
    /\ radio'[last'.node] = radio[last'.node]

\* C3 as stated: node A injects "M1|A1B2C3|1000|3|T|23.45"; node B receives
\* ttl = 3, delivers and relays with ttl = 2; node C receives ttl = 2, delivers
\* and relays with ttl = 1; the fourth node, receiving C's relay, delivers it
\* but does not relay it.
C3_FourthNodeDoesNotRelay ==
    [][ ScenarioAccepted
        => /\ last'.node = 2 => last'.rx.ttl = 3 /\ RelayedWith(2)
           /\ last'.node = 3 => last'.rx.ttl = 2 /\ RelayedWith(1)
           /\ last'.node = 4 => DeliveredNotRelayed ]_vars

\* C3, as the code has it: node B receives ttl = 3, delivers and relays with
\* ttl = 2; node C receives ttl = 2, delivers and relays with ttl = 1; the
\* fourth node receives ttl = 1, delivers and relays with ttl = 0; the fifth
\* node receives ttl = 0, delivers and does not relay, and no node further
\* down the line accepts the message: a frame received with ttl 0 is never
\* rebroadcast.
C3_FifthNodeDoesNotRelay ==
    [][ ScenarioAccepted
        => /\ last'.node \in 2..5
           /\ last'.node = 2 => last'.rx.ttl = 3 /\ RelayedWith(2)
           /\ last'.node = 3 => last'.rx.ttl = 2 /\ RelayedWith(1)
           /\ last'.node = 4 => last'.rx.ttl = 1 /\ RelayedWith(0)
           /\ last'.node = 5 => last'.rx.ttl = 0 /\ DeliveredNotRelayed ]_vars

\* the fifth node took the message with ttl = 0 from the fourth node's relay
\* burst, delivered it and stays silent
C3_Witness ==
    /\ last.op = "scan_result" /\ last.node = 5
    /\ last.rx.ok /\ last.rx.ttl = 0
    /\ last.raw = adv_payload_name(ScenarioFrame(0))
    /\ radio[4].on /\ radio[4].data = last.raw
    /\ Len(last.delivered) = 1
    /\ last.starts = <<>>
    /\ ~radio[5].on

\* the positions in node n's insertion log that hold a message of node 1
Node1Entries(n) ==
    {i \in 1..Len(hist[n]) : StartsWith(hist[n][i], NODE_ID(1) \o <<COLON>>)}

\* the nodes other than node 1 that accepted, and so delivered, node 1's message
DeliveredAt == {n \in Nodes \ {1} : Node1Entries(n) # {}}

\* the step just taken is a handler that accepted a message of node 1 as new
Node1Accepted ==
    /\ last'.op = "scan_result"
    /\ last'.ret = "False"
    /\ last'.rx.orig = NODE_ID(1)

\* C15: along the line, a message node 1 injects with ttl N = DEFAULT_TTL is
\* delivered by the next N + 1 nodes and by no other, once each; the first N
\* of them relay it at the moment they deliver it, the node that receives
\* ttl = 1 relaying a ttl = 0 frame; the node that receives ttl = 0 delivers
\* and does not relay; nothing is relayed except on delivery.
C15_RelaysAndDeliveries ==
    /\ [](/\ DeliveredAt \subseteq 2..(DEFAULT_TTL + 2)
          /\ Cardinality(DeliveredAt) <= DEFAULT_TTL + 1
          /\ \A n \in Nodes : Cardinality(Node1Entries(n)) <= 1
          /\ \A n \in DeliveredAt : n = 2 \/ n - 1 \in DeliveredAt)
    /\ [][ Node1Accepted
            => /\ last'.rx.ttl = DEFAULT_TTL + 2 - last'.node
               /\ Len(last'.delivered) = 1
               /\ last'.node <= DEFAULT_TTL + 1
                    => /\ Len(last'.starts) = 1
                       /\ parse_frame(last'.starts[1]).ttl = last'.rx.ttl - 1
                       /\ radio'[last'.node].on
               /\ last'.node = DEFAULT_TTL + 2
                    => /\ last'.rx.ttl = 0
                       /\ last'.starts = <<>>
                       /\ radio'[last'.node] = radio[last'.node] ]_vars
    /\ [][ (last'.op = "scan_result" /\ last'.starts # <<>>)
            => last'.ret = "False" ]_vars

\* all N + 1 nodes behind node 1 have delivered the message and the N relay
\* bursts have all been stopped again
C15_Witness ==
    /\ DeliveredAt = 2..(DEFAULT_TTL + 2)
    /\ \A n \in Nodes : ~radio[n].on
    /\ Ready

(* ======================================================================== *)
(* Termination of a flood (specification SpecFlood)                         *)
(* ======================================================================== *)
\* the ttl of the frame node n has on air, as a receiver decodes it
OnAirTtl(n) == parse_frame(extract_frame(radio[n].data, FALSE).s).ttl

\* some node is broadcasting
Broadcasting == \E n \in Nodes : radio[n].on

\* C17: every relayed frame carries a ttl that is non-negative and strictly
\* smaller than the ttl of the frame that caused it, also when the key was
\* evicted and the message is accepted a second time; every frame on air has
\* a ttl between 0 and the initial ttl; and, no further injection taking
\* place, whenever some node is broadcasting the line reaches a state in
\* which no node is.
C17_FloodTerminates ==
    /\ [][ (last'.op = "scan_result" /\ last'.starts # <<>>)
            => LET f == parse_frame(last'.starts[1])
               IN  /\ Len(last'.starts) = 1
                   /\ f.ok
                   /\ 0 <= f.ttl /\ f.ttl < last'.rx.ttl
                   /\ seen_key(f.orig, f.msgid) = last'.key ]_vars
    /\ [](\A n \in Nodes : radio[n].on => OnAirTtl(n) \in 0..DEFAULT_TTL)
    /\ Broadcasting ~> ~Broadcasting

\* node 2 accepted node 1's message a second time after its key had been
\* evicted, relayed it again, and the line has fallen silent
C17_Witness ==
    /\ Cardinality(Node1Entries(2)) = 2
    /\ Len(seen[2]) = SEEN_MAX
    /\ ~Broadcasting
    /\ Ready

(* ======================================================================== *)
(* Properties of the seen cache                                             *)
(* ======================================================================== *)
\* the last cap entries of q
LastN(q, cap) == IF Len(q) <= cap THEN q ELSE SubSeq(q, Len(q) - cap + 1, Len(q))

\* the step just taken called seen_check_add on node 1
CalledCheckAdd == last'.node = 1 /\ last'.ret # "none"

\* C5: seen_check_add(k) returns False when k was never inserted (and inserts
\* it); it returns True when k was inserted and is not evicted since, that is,
\* k is among the last SEEN_MAX insertions; a call that returns True leaves
\* the cache as it was.
C5_CheckAndAdd ==
    [][ CalledCheckAdd
        => /\ last'.key \notin Elems(hist[1])
                => last'.ret = "False" /\ last'.key \in Elems(seen'[1])
           /\ last'.key \in Elems(LastN(hist[1], SEEN_MAX)) => last'.ret = "True"
           /\ last'.ret = "True" => seen'[1] = seen[1] ]_vars

\* a repeated key was answered True
C5_Witness ==
    /\ last.ret = "True"
    /\ last.key \in Elems(hist[1])

\* C6: the cache is exactly the last min(n, SEEN_MAX) inserted keys in
\* insertion order, so it never holds more than SEEN_MAX keys; after
\* SEEN_MAX + 1 insertions of distinct keys the first one is gone and the
\* cache holds exactly SEEN_MAX keys.
C6_CacheIsRecentInsertions ==
    /\ seen[1] = LastN(hist[1], SEEN_MAX)
    /\ Len(seen[1]) <= SEEN_MAX
    /\ (Len(hist[1]) = SEEN_MAX + 1 /\ Cardinality(Elems(hist[1])) = SEEN_MAX + 1)
          => hist[1][1] \notin Elems(seen[1]) /\ Len(seen[1]) = SEEN_MAX

\* SEEN_MAX + 1 distinct keys were inserted, the last of them by an injection
C6_Witness ==
    /\ Len(hist[1]) = SEEN_MAX + 1
    /\ Cardinality(Elems(hist[1])) = SEEN_MAX + 1
    /\ last.op = "loop" /\ last.ret = "False"

\* no key was evicted from node 1's cache so far
NoEvictionYet == Len(hist[1]) <= SEEN_MAX

\* C16: whatever advertisements arrive and however often they are repeated,
\* as long as nothing was evicted from its cache the node accepts no key
\* twice: a frame whose key was accepted before is neither delivered nor
\* relayed, a relay burst is started only together with a delivery and only
\* one per delivery; and a frame carrying the node's own origin is never
\* delivered or relayed, with any ttl.
C16_AtMostOncePerMessage ==
    /\ [](NoEvictionYet => Cardinality(Elems(hist[1])) = Len(hist[1]))
    /\ [][ (IsScanResult /\ last'.rx.ok /\ NoEvictionYet
             /\ seen_key(last'.rx.orig, last'.rx.msgid) \in Elems(hist[1]))
            => last'.delivered = <<>> /\ last'.starts = <<>> /\ BurstUnchanged ]_vars
    /\ [][ IsScanResult
            => /\ Len(last'.delivered) <= 1
               /\ Len(last'.starts) <= Len(last'.delivered)
               /\ last'.delivered # <<>>
                    => last'.key = seen_key(last'.rx.orig, last'.rx.msgid)
                       /\ hist'[1] = Append(hist[1], last'.key) ]_vars
    /\ [][ (IsScanResult /\ last'.rx.ok /\ last'.rx.orig = NODE_ID(1))
            => last'.delivered = <<>> /\ last'.starts = <<>> ]_vars

\* a relayable frame that was delivered before arrived again and was
\* neither delivered nor relayed
C16_Witness ==
    /\ last.op = "scan_result" /\ last.node = 1
    /\ last.rx.ok /\ last.rx.orig # NODE_ID(1) /\ last.rx.ttl > 0
    /\ last.ret = "True"
    /\ last.delivered = <<>> /\ last.starts = <<>>
    /\ Len(hist[1]) <= SEEN_MAX

(* ======================================================================== *)
(* Malformed input                                                          *)
(* ======================================================================== *)
\* the advertisement holds the bytes "M1|" somewhere
HasMarker(raw) ==
    \E i \in 1..(Len(raw) - 2) : raw[i] = 77 /\ raw[i + 1] = 49 /\ raw[i + 2] = 124

\* the text the frame is read from: from the first marker to the first NUL,
\* undecodable bytes left out
FrameText(raw) ==
    LET i == CHOOSE k \in 1..(Len(raw) - 2) :
                 /\ raw[k] = 77 /\ raw[k + 1] = 49 /\ raw[k + 2] = 124
                 /\ \A j \in 1..(k - 1) :
                       ~(raw[j] = 77 /\ raw[j + 1] = 49 /\ raw[j + 2] = 124)
    IN  UpToNul(SelectSeq(SubSeq(raw, i, Len(raw)), LAMBDA b : b < 128))

\* t is an integer literal: blanks, an optional sign, digits, blanks
IsIntLiteral(t) ==
    \E i, j \in 1..Len(t) :
        /\ i <= j
        /\ \A k \in 1..(i - 1) : IsSpace(t[k])
        /\ \A k \in (j + 1)..Len(t) : IsSpace(t[k])
        /\ IsDigit(t[j])
        /\ \A k \in i..j : IsDigit(t[k]) \/ (k = i /\ t[k] \in {43, 45})

\* the ttl field (fourth token) of the frame text is there and is an integer
TtlParseable(raw) ==
    LET toks == Split(FrameText(raw), Len(raw))
    IN  Len(toks) >= 4 /\ IsIntLiteral(toks[4])

\* C8: the handler never lets an exception escape, and an advertisement
\* without the marker, or whose ttl field is no integer, is dropped silently:
\* nothing delivered, nothing relayed, seen cache, burst state and injection
\* schedule as they were.
C8_MalformedDroppedSilently ==
    [][ IsScanResult
        => /\ ~last'.fault
           /\ (~HasMarker(last'.raw) \/ ~TtlParseable(last'.raw))
                => /\ ~last'.rx.ok
                   /\ last'.delivered = <<>>
                   /\ last'.starts = <<>>
                   /\ seen'[1] = seen[1]
                   /\ BurstUnchanged
                   /\ next_inject_ms'[1] = next_inject_ms[1] ]_vars

\* a frame with all six tokens but a non-numeric ttl reached the handler
C8_Witness ==
    /\ last.op = "scan_result"
    /\ HasMarker(last.raw)
    /\ Len(Split(FrameText(last.raw), Len(last.raw))) = 6
    /\ ~TtlParseable(last.raw)

(* ======================================================================== *)
(* Burst expiry                                                             *)
(* ======================================================================== *)
\* the step just taken is a loop iteration of node 1; last'.svc is the burst
\* state advertise_burst_service left, last'.stops the broadcasts it stopped
IsService == last'.op = "loop" /\ last'.node = 1

\* the real time at which the burst on air is due to end
Deadline == radio[1].since + ADV_BURST_MS

\* C10: with a burst active, advertise_burst_service before the deadline
\* leaves it active with the same payload on air; at or after the deadline it
\* stops the broadcast and goes idle; while idle it changes nothing and stops
\* nothing.
C10_ServiceStopsAtDeadline ==
    [][ IsService
        => /\ (adv_active[1] /\ uptime < Deadline)
                => last'.svc.active /\ last'.svc.radio = radio[1] /\ last'.stops = 0
           /\ (adv_active[1] /\ uptime >= Deadline)
                => ~last'.svc.active /\ ~last'.svc.radio.on /\ last'.stops = 1
           /\ ~adv_active[1]
                => ~last'.svc.active /\ last'.svc.radio = radio[1] /\ last'.stops = 0
           /\ last'.starts = <<>>
                => adv_active'[1] = last'.svc.active /\ radio'[1] = last'.svc.radio ]_vars

\* a burst whose deadline lies beyond the wrap of the tick counter was stopped
C10_Witness ==
    /\ last.op = "loop" /\ last.node = 1 /\ last.stops = 1
    /\ last.starts = <<>>
    /\ adv_stop_ms[1] < ADV_BURST_MS
    /\ ~adv_active[1] /\ ~radio[1].on

\* the frame of the last advertise_burst_start the step just taken made
LastStarted == last'.starts[Len(last'.starts)]

\* C11: the radio holds one payload, that of the most recent start: a start
\* (on an idle or on an active burst) puts its frame on air and sets the
\* deadline to now + ADV_BURST_MS, a step that neither starts nor stops leaves
\* the payload alone, and the radio advertises exactly while the burst state
\* is active.
C11_OnePayloadOfLatestStart ==
    /\ [](radio[1].on <=> adv_active[1])
    /\ [][ last'.node = 1
            => /\ last'.starts # <<>>
                    => /\ radio'[1] = [on |-> TRUE,
                                       data |-> adv_payload_name(frame_to_name(LastStarted)),
                                       since |-> uptime]
                       /\ adv_active'[1]
                       /\ adv_stop_ms'[1] = ticks_add(ticks_ms(1), ADV_BURST_MS)
               /\ (last'.starts = <<>> /\ last'.stops = 0)
                    => radio'[1] = radio[1] /\ adv_stop_ms'[1] = adv_stop_ms[1] ]_vars

\* a relay burst replaced the burst of the node's own injection, started at
\* this very tick and so still on air
C11_Witness ==
    /\ last.op = "scan_result" /\ last.node = 1
    /\ Len(last.starts) = 1
    /\ seen_key(NODE_ID(1), IntToStr(ticks_ms(1))) \in Elems(hist[1])
    /\ radio[1].on
    /\ radio[1].data = adv_payload_name(frame_to_name(last.starts[1]))
    /\ adv_stop_ms[1] = ticks_add(ticks_ms(1), ADV_BURST_MS)

(* ======================================================================== *)
(* Injection timer                                                          *)
(* ======================================================================== *)
\* every value urandom.getrandbits(8) can return
AllRandBits == 0..255

\* t lies between now + basePeriod and now + basePeriod + maxJitter on the
\* tick counter
InArmWindow(t, now) ==
    LET d == ticks_diff(t, now)
    IN  INJECT_PERIOD_S * 1000 <= d /\ d <= (INJECT_PERIOD_S + INJECT_JITTER_S) * 1000

\* the tick counts at which node 1 injected so far: the messageIDs of its own
\* keys in the insertion log
InjectedAt ==
    LET own == NODE_ID(1) \o <<COLON>>
    IN  {DigitsToNat(SubSeq(hist[1][i], Len(own) + 1, Len(hist[1][i]))) :
            i \in {k \in 1..Len(hist[1]) : StartsWith(hist[1][k], own)}}

\* the step just taken is a loop iteration of node 1 that injected
Injected == last'.op = "loop" /\ last'.node = 1 /\ last'.starts # <<>>

\* C12: whenever the timer is armed (at construction, at the end of every
\* injection) the stored next-fire time lies in [now + 60000, now + 70000],
\* for every value of the 8-bit sample; an injection happens only when the
\* timer is due; an iteration less than 60000 ms after an injection does not
\* inject, so successive injections are at least 60000 ms apart.
C12_ArmedWithinWindow ==
    /\ InArmWindow(next_inject_ms[1], boot[1])
    /\ [](\A bits \in AllRandBits : InArmWindow(arm_inject(ticks_ms(1), bits), ticks_ms(1)))
    /\ [][ Injected
            => /\ InArmWindow(next_inject_ms'[1], ticks_ms(1))
               /\ ticks_diff(ticks_ms(1), next_inject_ms[1]) >= 0 ]_vars
    /\ [][ (last'.op = "loop" /\ last'.node = 1
             /\ \E t \in InjectedAt :
                   ticks_diff(ticks_ms(1), t) < INJECT_PERIOD_S * 1000)
            => last'.starts = <<>> /\ next_inject_ms'[1] = next_inject_ms[1] ]_vars

\* a second injection, exactly 60000 ms after the first, whose timer was armed
\* across the wrap of the tick counter
C12_Witness ==
    /\ last.op = "loop" /\ last.node = 1 /\ last.starts # <<>>
    /\ Cardinality(InjectedAt) = 2
    /\ \E t \in InjectedAt : ticks_diff(ticks_ms(1), t) = INJECT_PERIOD_S * 1000
    /\ next_inject_ms[1] > ticks_ms(1)

(* ======================================================================== *)
(* Scan window                                                              *)
(* ======================================================================== *)
\* C13: a scan is pending after construction; the scan-window-ended handler
\* runs on an ended window and issues exactly one scan request, after which a
\* scan is pending again; no other handler or loop iteration issues a scan
\* request; and between the end of a window and its handler no scan result
\* is processed.
C13_RescanOnWindowEnd ==
    /\ scan_state[1] = "scanning"
    /\ [](scan_state[1] \in {"scanning", "ended"})
    /\ [][ (last'.op = "scan_done" /\ last'.node = 1)
            => /\ scan_state[1] = "ended"
               /\ last'.scans = 1
               /\ scan_state'[1] = "scanning" ]_vars
    /\ [][ last'.op # "scan_done"
            => /\ last'.scans = 0
               /\ scan_state'[1] = "scanning" => scan_state[1] = "scanning" ]_vars
    /\ [][ (scan_state[1] = "ended" /\ last' # last)
            => last'.op # "scan_result" ]_vars

\* a window that ended while a burst was on air has been answered by a new
\* scan request
C13_Witness ==
    /\ last.op = "scan_done" /\ last.node = 1 /\ last.scans = 1
    /\ scan_state[1] = "scanning"
    /\ adv_active[1]

(* ======================================================================== *)
(* Progress of the main loop (specification SpecFair)                       *)
(* ======================================================================== *)
\* the clock has reached the armed next-fire time
TimerDue == ticks_diff(ticks_ms(1), next_inject_ms[1]) >= 0

\* a burst is active and the clock has reached its deadline
BurstOverdue ==
    adv_active[1] /\ ticks_diff(ticks_ms(1), adv_stop_ms[1]) >= 0

\* C14: under a fair main loop, whatever events arrive or fail to arrive: once
\* the clock has reached the armed next-fire time the node injects and re-arms
\* the timer (so with an advancing clock it injects again and again), and a
\* burst whose deadline the clock has reached is stopped or replaced by a
\* newer start.
C14_TimersMakeProgress ==
    /\ TimerDue ~> (last.op = "loop" /\ last.node = 1 /\ last.starts # <<>> /\ ~TimerDue)
    /\ BurstOverdue ~> ~BurstOverdue

\* with no frame of another node ever accepted, the node injected and its
\* burst was stopped after the deadline
C14_Witness ==
    /\ last.op = "loop" /\ last.node = 1 /\ last.stops = 1
    /\ InjectedAt # {}
    /\ Len(hist[1]) = Cardinality(InjectedAt)
    /\ ~adv_active[1] /\ ~TimerDue

(* ======================================================================== *)
(* From advertise_burst_start to the receiver                               *)
(* ======================================================================== *)
\* what a receiver's scan-result handler decodes from the payload node 1 has
\* on air after the step just taken
Received == parse_frame(extract_frame(radio'[1].data, FALSE).s)

\* C18: for every frame passed to advertise_burst_start, injected or relayed,
\* the payload handed to the radio decodes in a receiver's handler to the
\* origin, messageID, ttl, type and payload of that frame.
C18_AirRoundTrip ==
    [][ (last'.node = 1 /\ last'.starts # <<>>)
        => LET f == parse_frame(LastStarted)
           IN  /\ f.ok
               /\ Received.ok
               /\ Received.orig = f.orig
               /\ Received.msgid = f.msgid
               /\ Received.ttl = f.ttl
               /\ Received.typ = f.typ
               /\ Received.data = f.data ]_vars

(* ======================================================================== *)
(* Preemption (specification SpecPreempt)                                   *)
(* ======================================================================== *)
\* C20: with the handler free to run between any two statements of the loop
\* body, advertise_burst_service never stops a burst before that burst's own
\* deadline, and outside advertise_burst_service the active flag agrees with
\* whether the radio is advertising.
C20_BurstSafeUnderPreemption ==
    /\ [][ (pc[1] = "stop" /\ pc'[1] = "clear" /\ radio[1].on)
            => uptime >= radio[1].since + ADV_BURST_MS ]_vars
    /\ [](pc[1] \in {"service", "poll"} => (adv_active[1] <=> radio[1].on))

(* ======================================================================== *)
(* The dedupe key (specification SpecKey)                                   *)
(* ======================================================================== *)
\* C19: of two successfully decoded frames handled in a row, the second is
\* treated as a duplicate of the first if and only if their origins are equal
\* and their messageIDs are equal.
C19_KeyIdentifiesPair ==
    (cout.st = "done" /\ cin.st = "pair" /\ cout.r.first.ok /\ cout.r.second.ok)
        => (cout.r.dup <=> /\ cout.r.first.orig = cout.r.second.orig
                           /\ cout.r.first.msgid = cout.r.second.msgid)

(* ======================================================================== *)
(* Properties of the codec (specification SpecCodec)                        *)
(* ======================================================================== *)
\* C7: for fields without '|' and any integer ttl, parse_frame(make_frame(..))
\* gives back exactly the five fields.
C7_RoundTrip ==
    (cout.st = "done" /\ Len(cin.args) = 5)
        => /\ cout.r.ok
           /\ <<cout.r.orig, cout.r.msgid, cout.r.ttl, cout.r.typ, cout.r.data>> = cin.args

\* a frame with an empty origin, a negative ttl and a payload was decoded
C7_Witness ==
    /\ cout.st = "done" /\ Len(cin.args) = 5
    /\ cin.args[1] = <<>> /\ cin.args[3] < 0 /\ cin.args[5] # <<>>

\* number of tokens the text falls into when cut at every '|'
TokenCount(s) == 1 + Cardinality({i \in 1..Len(s) : s[i] = PIPE})

\* C9: a text that starts with the marker and does not fall into exactly six
\* tokens at the '|' delimiters is decoded as malformed, with fewer delimiters
\* and with more.
C9_WrongTokenCountIsMalformed ==
    (cout.st = "done" /\ StartsWith(cin.s, Marker) /\ TokenCount(cin.s) # 6)
        => ~cout.r.ok

====
